---- MODULE Spec2Model ----
(***************************************************************************)
(* Model of api/query.js: the serverless handler that answers a question   *)
(* from a Notion knowledge base through an in-memory cache, a Gemini       *)
(* classification and an optional Notion audit log.                        *)
(*                                                                         *)
(* Text is a sequence of tokens.  The literals the code looks for          *)
(* ("EXACT_MATCH::", "RELATED_MATCH::", "|||") are one token each, every   *)
(* other token is one character.  An answer text is a sequence of          *)
(* segments.  JSON null is the string "null", a property that is not in a  *)
(* JSON body is "absent".                                                  *)
(***************************************************************************)
EXTENDS Integers, Sequences, FiniteSets, TLC

\* ------------------------------------------------------------- bounds
NumReq == 2
MaxTicks == 3
MaxPages == 2
MaxKb == 2
MaxRaw == 4

\* ---------------------------------------------------------- constants
CACHE_TTL_MS == 10 * 60 * 1000
\* The clock advances in steps of half the TTL, so that ages of exactly
\* 0, TTL/2, TTL and 3*TTL/2 all occur.
TickMs == CACHE_TTL_MS \div 2

NULL == "null"
Absent == "absent"
AbsentText == <<"absent">>

EXACT == "EXACT_MATCH::"
RELATED == "RELATED_MATCH::"
SEP == "|||"
WS == {" ", "\n\n"}

EmptyKbText == <<"KB_EMPTY_MESSAGE">>
NoMatchText == <<"NO_MATCH_MESSAGE">>
RelatedHeader == <<"RELATED_HEADER", "\n\n">>
MethodError == "METHOD_NOT_ALLOWED_MESSAGE"
QuestionError == "QUESTION_REQUIRED_MESSAGE"
InternalError == "INTERNAL_ERROR_MESSAGE"

Req == 1 .. NumReq
\* The invocations of the handler that run one after the other.
Serial == {1}

\* ------------------------------------------------------ string helpers
RECURSIVE TrimLeft(_)
TrimLeft(s) == IF s # <<>> /\ Head(s) \in WS THEN TrimLeft(Tail(s)) ELSE s

RECURSIVE TrimRight(_)
TrimRight(s) ==
  IF s # <<>> /\ s[Len(s)] \in WS THEN TrimRight(SubSeq(s, 1, Len(s) - 1)) ELSE s

\* String.prototype.trim
Trim(s) == TrimRight(TrimLeft(s))

\* String.prototype.startsWith, for a one-token literal
StartsWith(s, lit) == Len(s) >= 1 /\ s[1] = lit

Occurrences(s, lit) == {i \in 1 .. Len(s) : s[i] = lit}

FirstOccurrence(s, lit) ==
  CHOOSE i \in Occurrences(s, lit) : \A j \in Occurrences(s, lit) : i <= j

\* String.prototype.replace(lit, ""): removes the first occurrence only
ReplaceFirst(s, lit) ==
  IF Occurrences(s, lit) = {}
  THEN s
  ELSE LET i == FirstOccurrence(s, lit)
       IN  SubSeq(s, 1, i - 1) \o SubSeq(s, i + 1, Len(s))

\* String.prototype.split(lit): "".split(lit) is [""]
RECURSIVE Split(_, _)
Split(s, lit) ==
  IF Occurrences(s, lit) = {}
  THEN <<s>>
  ELSE LET i == FirstOccurrence(s, lit)
       IN  <<SubSeq(s, 1, i - 1)>> \o Split(SubSeq(s, i + 1, Len(s)), lit)

\* Array.prototype.includes
Includes(list, x) == \E i \in DOMAIN list : list[i] = x

\* All sequences over S of length at most n
SeqUpTo(S, n) == UNION {[1 .. k -> S] : k \in 0 .. n}

\* ------------------------------------------------- the knowledge source
\* Pages of the Notion database as the API returns them.  title is
\* properties.Question.title[0].plain_text, <<>> when it is missing or "".
RecA ==
  [title |-> <<"a">>, answer |-> <<"A1">>, imageUrl |-> "img1",
   pdfUrl |-> NULL, linkUrl |-> NULL, linkText |-> NULL]
RecB ==
  [title |-> <<"b">>, answer |-> <<"A2">>, imageUrl |-> "img2",
   pdfUrl |-> "pdf2", linkUrl |-> "url2", linkText |-> "text2"]
\* the same question as RecA once trimmed
RecA2 ==
  [title |-> <<" ", "a">>, answer |-> <<"A3">>, imageUrl |-> "img3",
   pdfUrl |-> "pdf3", linkUrl |-> NULL, linkText |-> NULL]
\* a title of white space only
RecBlank ==
  [title |-> <<" ">>, answer |-> <<"A4">>, imageUrl |-> NULL,
   pdfUrl |-> NULL, linkUrl |-> "url4", linkText |-> NULL]
RecNoTitle ==
  [title |-> <<>>, answer |-> <<"A5">>, imageUrl |-> "img5",
   pdfUrl |-> NULL, linkUrl |-> NULL, linkText |-> NULL]

Records == {RecA, RecB, RecA2, RecBlank, RecNoTitle}

\* response.data.results of one page query
PageResults ==
  {<<>>, <<RecA>>, <<RecB, RecA2>>, <<RecBlank, RecNoTitle>>}

\* The item allItems.push builds from one page
ToItem(page) ==
  [question |-> Trim(page.title), answer |-> page.answer,
   imageUrl |-> page.imageUrl, pdfUrl |-> page.pdfUrl,
   linkUrl |-> page.linkUrl, linkText |-> page.linkText]

\* if (questionText): a missing title and "" are falsy
Truthy(title) == title # <<>>

\* results.forEach(...) appending to allItems
RECURSIVE PushAll(_, _)
PushAll(items, results) ==
  IF results = <<>>
  THEN items
  ELSE PushAll(IF Truthy(Head(results).title)
               THEN Append(items, ToItem(Head(results)))
               ELSE items,
               Tail(results))

\* Everything a page query can hold that survives the filter
Items == {ToItem(p) : p \in {q \in Records : Truthy(q.title)}}

\* Non-empty knowledge bases of at most MaxKb items
Snapshots == SeqUpTo(Items, MaxKb) \ {<<>>}

\* ------------------------------------------------------- classification
NoneMatch == [type |-> "none", questions |-> <<>>]

ValidQuestionsUnchecked(pieces, allQuestions) == pieces

\* .filter(q => allQuestions.includes(q))
ValidQuestions(pieces, allQuestions) ==
  SelectSeq(pieces, LAMBDA q : Includes(allQuestions, q))

TrimmedPiecesUntrimmed(text) == Split(text, SEP)

\* .split("|||").map(q => q.trim())
TrimmedPieces(text) ==
  LET parts == Split(text, SEP) IN [i \in DOMAIN parts |-> Trim(parts[i])]

\* The parsing of findMatchesWithGemini: text is response.text()
ParseMatch(text, allQAPairs) ==
  LET rawResponse == Trim(text)
      allQuestions == [i \in DOMAIN allQAPairs |-> allQAPairs[i].question]
      question == Trim(ReplaceFirst(rawResponse, EXACT))
      matchedQuestions ==
        ValidQuestions(TrimmedPieces(Trim(ReplaceFirst(rawResponse, RELATED))),
                       allQuestions)
  IN  IF StartsWith(rawResponse, EXACT) /\ Includes(allQuestions, question)
      THEN [type |-> "exact", questions |-> <<question>>]
      ELSE IF StartsWith(rawResponse, RELATED) /\ Len(matchedQuestions) > 0
           THEN [type |-> "related", questions |-> matchedQuestions]
           ELSE NoneMatch

GeminiErrorRethrown == [thrown |-> TRUE, match |-> NoneMatch]

\* catch (error) { return { type: 'none', questions: [] } }
GeminiErrorOutcome == [thrown |-> FALSE, match |-> NoneMatch]

\* ---------------------------------------------------------- composition
Body(error, answer, question, imageUrl, pdfUrl, linkUrl, linkText, ai) ==
  [error |-> error, answer |-> answer, question |-> question,
   imageUrl |-> imageUrl, pdfUrl |-> pdfUrl, linkUrl |-> linkUrl,
   linkText |-> linkText, ai_assisted |-> ai]

\* res.status(200).end()
EmptyBody ==
  Body(Absent, AbsentText, AbsentText, Absent, Absent, Absent, Absent, FALSE)

ErrorBody(msg) ==
  Body(msg, AbsentText, AbsentText, Absent, Absent, Absent, Absent, FALSE)

EmptyKbBody ==
  Body(Absent, EmptyKbText, AbsentText, Absent, Absent, Absent, Absent, FALSE)

NoMatchBodyWrongText ==
  Body(Absent, EmptyKbText, AbsentText, Absent, Absent, Absent, Absent, TRUE)

NoMatchBody ==
  Body(Absent, NoMatchText, AbsentText, Absent, Absent, Absent, Absent, TRUE)

MatchingIndexes(allQAPairs, q) ==
  {i \in DOMAIN allQAPairs : allQAPairs[i].question = q}

FindIndexLast(allQAPairs, q) ==
  CHOOSE i \in MatchingIndexes(allQAPairs, q) :
    \A j \in MatchingIndexes(allQAPairs, q) : j <= i

\* Array.prototype.find: the index of the first item with that question
FindIndex(allQAPairs, q) ==
  CHOOSE i \in MatchingIndexes(allQAPairs, q) :
    \A j \in MatchingIndexes(allQAPairs, q) : i <= j

\* { ...matchedItem, ai_assisted: true }
ExactBody(item) ==
  Body(Absent, item.answer, item.question, item.imageUrl, item.pdfUrl,
       item.linkUrl, item.linkText, TRUE)

\* allQAPairs.filter(item => matchResult.questions.includes(item.question))
FilterItemsReversed(allQAPairs, questions) ==
  LET kept == SelectSeq(allQAPairs,
                        LAMBDA item : Includes(questions, item.question))
  IN  [i \in 1 .. Len(kept) |-> kept[Len(kept) + 1 - i]]

FilterItems(allQAPairs, questions) ==
  SelectSeq(allQAPairs, LAMBDA item : Includes(questions, item.question))

\* combinedAnswer += `• **${item.question}**\n${item.answer}\n\n`
RECURSIVE CombinedAnswer(_, _)
CombinedAnswer(text, items) ==
  IF items = <<>>
  THEN text
  ELSE CombinedAnswer(
         text \o <<"* **">> \o Head(items).question \o <<"**\n">>
              \o Head(items).answer \o <<"\n\n">>,
         Tail(items))

AttachmentIndexLast(matchedItems) == Len(matchedItems)

\* if (index === 0): the item whose attachments are used
AttachmentIndex(matchedItems) == 1

\* The combined attachments stay null when forEach visits no item
RelatedBody(matchedItems) ==
  LET answer == Trim(CombinedAnswer(RelatedHeader, matchedItems))
  IN  IF matchedItems = <<>>
      THEN Body(Absent, answer, AbsentText, NULL, NULL, NULL, NULL, TRUE)
      ELSE LET first == matchedItems[AttachmentIndex(matchedItems)]
           IN  Body(Absent, answer, AbsentText, first.imageUrl, first.pdfUrl,
                    first.linkUrl, first.linkText, TRUE)

\* Steps 3 of the handler up to the logQuery call: the body to send, or
\* thrown when matchedItem is undefined and matchedItem.question throws.
Compose(m, allQAPairs) ==
  IF m.type = "exact" /\ Len(m.questions) > 0
  THEN IF MatchingIndexes(allQAPairs, m.questions[1]) = {}
       THEN [thrown |-> TRUE, body |-> ErrorBody(InternalError)]
       ELSE [thrown |-> FALSE,
             body |-> ExactBody(allQAPairs[FindIndex(allQAPairs, m.questions[1])])]
  ELSE IF m.type = "related" /\ Len(m.questions) > 0
       THEN [thrown |-> FALSE,
             body |-> RelatedBody(FilterItems(allQAPairs, m.questions))]
       ELSE [thrown |-> FALSE, body |-> NoMatchBody]

\* ------------------------------------------------------------- state
VARIABLES
  now,        \* Date.now()
  cache,      \* the module-level cache; hasPairs is qaPairs !== null
  logEnabled, \* LOG_DB_ID is set
  handler     \* per invocation: where it is suspended and its locals

vars == <<now, cache, logEnabled, handler>>

NoResponse == [status |-> 0, body |-> EmptyBody]

\* An invocation that has not started
Idle ==
  [pc |-> "idle", method |-> "NONE", body |-> "undefined", getNow |-> 0,
   pageNo |-> 0, allItems |-> <<>>, kb |-> <<>>, rawResponse |-> <<>>,
   matchResult |-> NoneMatch, composed |-> EmptyBody, logState |-> "none",
   response |-> NoResponse, cacheHit |-> FALSE, fetchRuns |-> 0,
   notionQueries |-> 0, geminiCalls |-> 0, logCalls |-> 0,
   fetchFailed |-> FALSE, geminiFailed |-> FALSE,
   \* history: another invocation stored a snapshot during this refresh
   overtaken |-> FALSE]

EmptyCache == [hasPairs |-> FALSE, qaPairs |-> <<>>, lastFetchTime |-> 0]

Methods == {"OPTIONS", "GET", "POST"}
\* req.body: undefined, an object without question, question "", a question
Bodies == {"undefined", "no_question", "empty_question", "question"}

\* ------------------------------------------------- the handler's steps
\* res.status(status).json(body) (or .end()), ending the invocation
FinishWith(h, status, body) ==
  [h EXCEPT !.pc = "done", !.response = [status |-> status, body |-> body]]

\* catch (error) of the handler
InternalFailure(h) == FinishWith(h, 500, ErrorBody(InternalError))

LogFailureSurfaces(body, outcome) ==
  IF outcome = "failed"
  THEN [status |-> 500, body |-> ErrorBody(InternalError)]
  ELSE [status |-> 200, body |-> body]

\* logQuery's catch swallows the failure: the body composed before the
\* call is sent with 200 whatever the write did
ResponseAfterLog(body, outcome) == [status |-> 200, body |-> body]

LogNotAwaited == FALSE

\* await logQuery(...): the handler is suspended until the write settles
AwaitsLogQuery == TRUE

\* logQuery up to its await, and the response when it returns at once
LogQuery(h, body) ==
  IF ~logEnabled
  THEN [FinishWith(h, 200, body) EXCEPT !.logState = "skipped"]
  ELSE IF AwaitsLogQuery
       THEN [h EXCEPT !.pc = "awaitLog", !.composed = body,
                      !.logState = "pending", !.logCalls = @ + 1]
       ELSE [FinishWith(h, 200, body) EXCEPT !.logState = "pending",
                                              !.logCalls = @ + 1]

\* The handler from the classifier's result to the logQuery call
AfterMatch(h, m) ==
  LET c == Compose(m, h.kb)
      h1 == [h EXCEPT !.matchResult = m]
  IN  IF c.thrown THEN InternalFailure(h1) ELSE LogQuery(h1, c.body)

AfterGetNoEmptyCheck(h, allQAPairs) ==
  [h EXCEPT !.kb = allQAPairs, !.pc = "awaitGemini", !.geminiCalls = @ + 1]

\* The handler from getKnowledgeBase's result to the classifier call
AfterGet(h, allQAPairs) ==
  LET h1 == [h EXCEPT !.kb = allQAPairs]
  IN  IF Len(allQAPairs) = 0
      THEN FinishWith(h1, 200, EmptyKbBody)
      ELSE [h1 EXCEPT !.pc = "awaitGemini", !.geminiCalls = @ + 1]

CacheFreshInclusive(c, t) == c.hasPairs /\ t - c.lastFetchTime <= CACHE_TTL_MS

\* cache.qaPairs && (now - cache.lastFetchTime < CACHE_TTL_MS)
CacheFresh(c, t) == c.hasPairs /\ t - c.lastFetchTime < CACHE_TTL_MS

StoreCacheAlways(c, allQAPairs, t) ==
  [hasPairs |-> TRUE, qaPairs |-> allQAPairs, lastFetchTime |-> t]

StoreCacheStampsAlways(c, allQAPairs, t) ==
  IF Len(allQAPairs) > 0
  THEN [hasPairs |-> TRUE, qaPairs |-> allQAPairs, lastFetchTime |-> t]
  ELSE [c EXCEPT !.lastFetchTime = t]

StoreCacheKeepsTime(c, allQAPairs, t) ==
  IF Len(allQAPairs) > 0
  THEN [hasPairs |-> TRUE, qaPairs |-> allQAPairs,
        lastFetchTime |-> c.lastFetchTime]
  ELSE c

\* if (allQAPairs.length > 0) { cache.qaPairs = ...; cache.lastFetchTime = now }
StoreCache(c, allQAPairs, t) ==
  IF Len(allQAPairs) > 0
  THEN [hasPairs |-> TRUE, qaPairs |-> allQAPairs, lastFetchTime |-> t]
  ELSE c

\* return allQAPairs, after a refresh
RefreshResult(c, allQAPairs) == allQAPairs

FetchErrorRethrown == [thrown |-> TRUE, items |-> <<>>]

\* catch (error) { return [] } of fetchAllQAPairs
FetchErrorOutcome == [thrown |-> FALSE, items |-> <<>>]

GetKnowledgeBaseNoCapture(h) ==
  IF CacheFresh(cache, now)
  THEN AfterGet([h EXCEPT !.cacheHit = TRUE], cache.qaPairs)
  ELSE [h EXCEPT !.pc = "awaitNotion", !.fetchRuns = @ + 1,
                 !.notionQueries = @ + 1, !.pageNo = 1,
                 !.allItems = <<>>]

\* getKnowledgeBase up to its first suspension
GetKnowledgeBase(h) ==
  LET h1 == [h EXCEPT !.getNow = now]
  IN  IF CacheFresh(cache, now)
      THEN AfterGet([h1 EXCEPT !.cacheHit = TRUE], cache.qaPairs)
      ELSE [h1 EXCEPT !.pc = "awaitNotion", !.fetchRuns = @ + 1,
                      !.notionQueries = @ + 1, !.pageNo = 1,
                      !.allItems = <<>>]

InvokeChecksLate(method, body) ==
  LET h == [Idle EXCEPT !.method = method, !.body = body]
  IN  IF method = "OPTIONS"
      THEN FinishWith(h, 200, EmptyBody)
      ELSE IF method # "POST"
           THEN FinishWith(h, 405, ErrorBody(MethodError))
           ELSE IF body = "undefined"
                THEN [h EXCEPT !.pc = "crashed"]
                ELSE IF body # "question"
                     THEN FinishWith(GetKnowledgeBase(h), 400,
                                     ErrorBody(QuestionError))
                     ELSE GetKnowledgeBase(h)

\* The handler from its invocation to its first suspension
Invoke(method, body) ==
  LET h == [Idle EXCEPT !.method = method, !.body = body]
  IN  IF method = "OPTIONS"
      THEN FinishWith(h, 200, EmptyBody)
      ELSE IF method # "POST"
           THEN FinishWith(h, 405, ErrorBody(MethodError))
           ELSE IF body = "undefined"
                THEN [h EXCEPT !.pc = "crashed"]
                ELSE IF body # "question"
                     THEN FinishWith(h, 400, ErrorBody(QuestionError))
                     ELSE GetKnowledgeBase(h)

\* ------------------------------------------------------------ inputs
Tok == {EXACT, RELATED, SEP, " ", "a", "b"}

\* Every classifier response of at most MaxRaw tokens, and the plain marker
AllRaws == SeqUpTo(Tok, MaxRaw) \cup {<<"NO_MATCH">>}

\* The classifier responses of the request pipeline
PipelineRaws ==
  {<<"NO_MATCH">>, <<EXACT, "a">>, <<" ", EXACT, " ", "b">>,
   <<RELATED, "b", SEP, "a">>, <<RELATED, "a", SEP, " ">>, <<"a">>}

\* ----------------------------------------------------------- actions
\* A request arrives and the handler runs to its first suspension
Receive(r, methods, bodies) ==
  /\ handler[r].pc \in {"idle", "done", "crashed"}
  /\ \E method \in methods, body \in bodies :
       handler' = [handler EXCEPT ![r] = Invoke(method, body)]
  /\ UNCHANGED <<now, cache, logEnabled>>

\* The invocations whose refresh is running are marked when q stores
MarkOvertaken(hs, q, stored) ==
  [x \in Req |->
     IF x # q /\ stored /\ hs[x].pc = "awaitNotion"
     THEN [hs[x] EXCEPT !.overtaken = TRUE]
     ELSE hs[x]]

\* One page query of fetchAllQAPairs resolves with one of the pages
NotionQueryReturns(r, pages) ==
  /\ handler[r].pc = "awaitNotion"
  /\ \E results \in pages, hasMore \in BOOLEAN :
       LET h == handler[r]
           items == PushAll(h.allItems, results)
       IN  /\ hasMore => h.pageNo < MaxPages
           /\ IF hasMore
              THEN /\ handler' = [handler EXCEPT ![r] =
                        [h EXCEPT !.allItems = items, !.pageNo = @ + 1,
                                  !.notionQueries = @ + 1]]
                   /\ cache' = cache
              ELSE /\ cache' = StoreCache(cache, items, h.getNow)
                   /\ handler' =
                        MarkOvertaken(
                          [handler EXCEPT ![r] =
                             AfterGet([h EXCEPT !.allItems = items],
                                      RefreshResult(cache, items))],
                          r, Len(items) > 0)
  /\ UNCHANGED <<now, logEnabled>>

\* One page query of fetchAllQAPairs rejects
NotionQueryFails(r) ==
  /\ handler[r].pc = "awaitNotion"
  /\ LET o == FetchErrorOutcome
         h == [handler[r] EXCEPT !.fetchFailed = TRUE, !.allItems = o.items]
     IN  IF o.thrown
         THEN /\ handler' = [handler EXCEPT ![r] = InternalFailure(h)]
              /\ cache' = cache
         ELSE /\ cache' = StoreCache(cache, o.items, h.getNow)
              /\ handler' = [handler EXCEPT ![r] =
                   AfterGet(h, RefreshResult(cache, o.items))]
  /\ UNCHANGED <<now, logEnabled>>

\* model.generateContent resolves with one of the texts
GeminiReturns(r, texts) ==
  /\ handler[r].pc = "awaitGemini"
  /\ \E text \in texts :
       LET h == [handler[r] EXCEPT !.rawResponse = text]
       IN  handler' = [handler EXCEPT ![r] =
             AfterMatch(h, ParseMatch(text, h.kb))]
  /\ UNCHANGED <<now, cache, logEnabled>>

\* model.generateContent (or response.text()) throws
GeminiFails(r) ==
  /\ handler[r].pc = "awaitGemini"
  /\ LET h == [handler[r] EXCEPT !.geminiFailed = TRUE]
         o == GeminiErrorOutcome
     IN  handler' = [handler EXCEPT ![r] =
           IF o.thrown THEN InternalFailure(h) ELSE AfterMatch(h, o.match)]
  /\ UNCHANGED <<now, cache, logEnabled>>

\* The audit-log write settles
LogSettles(r, outcome) ==
  /\ handler[r].logState = "pending"
  /\ LET h == [handler[r] EXCEPT !.logState = outcome]
     IN  handler' = [handler EXCEPT ![r] =
           IF h.pc = "awaitLog"
           THEN [h EXCEPT !.pc = "done",
                          !.response = ResponseAfterLog(h.composed, outcome)]
           ELSE h]
  /\ UNCHANGED <<now, cache, logEnabled>>

LogWriteReturns(r) == LogSettles(r, "ok")

LogWriteFails(r) == LogSettles(r, "failed")

\* Time passes
Tick ==
  /\ now < (MaxTicks + 1) * TickMs
  /\ now' = now + TickMs
  /\ UNCHANGED <<cache, logEnabled, handler>>

\* ------------------------------------------------------ specifications
Init ==
  /\ now = TickMs
  /\ cache = EmptyCache
  /\ logEnabled \in BOOLEAN
  /\ handler = [r \in Req |-> Idle]

Next ==
  \/ \E r \in Serial : Receive(r, Methods, Bodies)
  \/ \E r \in Serial : NotionQueryReturns(r, PageResults)
  \/ \E r \in Serial : NotionQueryFails(r)
  \/ \E r \in Serial : GeminiReturns(r, PipelineRaws)
  \/ \E r \in Serial : GeminiFails(r)
  \/ \E r \in Serial : LogWriteReturns(r)
  \/ \E r \in Serial : LogWriteFails(r)
  \/ Tick

Spec == Init /\ [][Next]_vars

\* The classification and composition of one request, over every knowledge
\* base of at most MaxKb items and every response of at most MaxRaw tokens:
\* the request has just refreshed the cache and called the classifier.
ClassifyInit ==
  /\ now = TickMs
  /\ logEnabled \in BOOLEAN
  /\ \E snapshot \in Snapshots :
       /\ cache = StoreCache(EmptyCache, snapshot, TickMs)
       /\ handler = [r \in Req |->
            IF r \in Serial
            THEN AfterGet([Idle EXCEPT !.method = "POST", !.body = "question",
                                       !.getNow = TickMs, !.fetchRuns = 1,
                                       !.notionQueries = 1, !.pageNo = 1],
                          snapshot)
            ELSE Idle]

ClassifyNext ==
  \/ \E r \in Serial : GeminiReturns(r, AllRaws)
  \/ \E r \in Serial : GeminiFails(r)
  \/ \E r \in Serial : LogWriteReturns(r)
  \/ \E r \in Serial : LogWriteFails(r)

ClassifySpec == ClassifyInit /\ [][ClassifyNext]_vars

\* Invocations that overlap: each of them is invoked once, as a POST with
\* a question, the log is not configured and the classifier finds no
\* match, so that only the refreshes of the cache differ.
RacePages == {<<>>, <<RecA>>}

RaceTick == now < 2 * TickMs /\ Tick

RaceReceive(r) ==
  handler[r].pc = "idle" /\ Receive(r, {"POST"}, {"question"})

RaceInit ==
  /\ now = TickMs
  /\ cache = EmptyCache
  /\ logEnabled = FALSE
  /\ handler = [r \in Req |-> Idle]

RaceNext ==
  \/ \E r \in Req : RaceReceive(r)
  \/ \E r \in Req : NotionQueryReturns(r, RacePages)
  \/ \E r \in Req : NotionQueryFails(r)
  \/ \E r \in Req : GeminiReturns(r, {<<"NO_MATCH">>})
  \/ RaceTick

RaceSpec == RaceInit /\ [][RaceNext]_vars

\* ------------------------------------------------------------ claims
PastGet(h) == h.pc \in {"awaitGemini", "awaitLog", "done"} /\ h.body = "question"
                /\ h.method = "POST"

NoValue(x) == x \in {NULL, Absent}

NoAttachment(body) ==
  /\ NoValue(body.imageUrl) /\ NoValue(body.pdfUrl)
  /\ NoValue(body.linkUrl) /\ NoValue(body.linkText)

\* C1: a get() whose refresh fails or yields no entries while the cache
\* holds a snapshot returns that snapshot, and get() returns an empty
\* snapshot only if the cache never held one.
StaleOnError ==
  \A r \in Req :
    LET h == handler[r]
    IN  /\ (PastGet(h) /\ h.fetchRuns = 1 /\ cache.hasPairs
              /\ (h.fetchFailed \/ h.allItems = <<>>))
           => h.kb = cache.qaPairs
        /\ (PastGet(h) /\ h.kb = <<>>) => ~cache.hasPairs

\* C2: a get() returns the stored snapshot without any query of the
\* knowledge source if a snapshot is stored and its age is strictly below
\* the TTL; otherwise it starts exactly one refresh; no get() ever runs
\* more than one refresh, and a cache hit never queries the source.
CacheTiming ==
  [][\A r \in Req :
       /\ (/\ handler[r].pc \in {"idle", "done", "crashed"}
           /\ handler'[r] # handler[r]
           /\ handler'[r].method = "POST" /\ handler'[r].body = "question")
          => IF cache.hasPairs /\ now - cache.lastFetchTime < CACHE_TTL_MS
             THEN /\ handler'[r].kb = cache.qaPairs
                  /\ handler'[r].fetchRuns = 0
                  /\ handler'[r].notionQueries = 0
                  /\ handler'[r].pc = "awaitGemini"
                  /\ cache' = cache
             ELSE /\ handler'[r].fetchRuns = 1
                  /\ handler'[r].notionQueries = 1
                  /\ handler'[r].pc = "awaitNotion"
       /\ handler'[r].fetchRuns <= 1
       /\ (handler'[r].fetchRuns = 0 => handler'[r].notionQueries = 0)]_vars

\* A refresh started at an age of exactly the TTL, with a snapshot stored
CacheTimingWitness ==
  \E r \in Req :
    /\ handler[r].pc = "awaitNotion"
    /\ cache.hasPairs
    /\ handler[r].getNow - cache.lastFetchTime = CACHE_TTL_MS

\* C3: every question of the match result of findMatchesWithGemini is the
\* question of an item of the knowledge base passed to it.
ValidatedQuestions ==
  \A r \in Req :
    LET h == handler[r]
    IN  \A i \in DOMAIN h.matchResult.questions :
          \E j \in DOMAIN h.kb : h.kb[j].question = h.matchResult.questions[i]

\* The classifier named "b", which is not in the knowledge base, next to a
\* question that is
ValidatedQuestionsWitness ==
  \E r \in Req :
    LET h == handler[r]
    IN  /\ h.matchResult.type = "related"
        /\ \E i \in DOMAIN h.rawResponse : h.rawResponse[i] = "b"
        /\ \A j \in DOMAIN h.kb : h.kb[j].question # <<"b">>

Listed(questions, q) == \E k \in DOMAIN questions : questions[k] = q

SameAttachments(body, item) ==
  /\ body.imageUrl = item.imageUrl /\ body.pdfUrl = item.pdfUrl
  /\ body.linkUrl = item.linkUrl /\ body.linkText = item.linkText

RelatedDone(h) ==
  h.pc = "done" /\ h.matchResult.type = "related" /\ h.response.status = 200

\* C4 (as stated): the attachments of a Related response are those of the
\* item of the first question in the classifier's list.
RelatedAttachmentsFirstListed ==
  \A r \in Req :
    LET h == handler[r]
    IN  RelatedDone(h) =>
          \E i \in DOMAIN h.kb :
            /\ h.kb[i].question = h.matchResult.questions[1]
            /\ SameAttachments(h.response.body, h.kb[i])

\* C4 (amended): the attachments of a Related response are those of the
\* first item, in the order of the knowledge base, whose question is one of
\* the validated questions.
RelatedAttachmentsFirstInSnapshot ==
  \A r \in Req :
    LET h == handler[r]
    IN  RelatedDone(h) =>
          \E i \in DOMAIN h.kb :
            /\ Listed(h.matchResult.questions, h.kb[i].question)
            /\ \A j \in 1 .. (i - 1) :
                 ~Listed(h.matchResult.questions, h.kb[j].question)
            /\ SameAttachments(h.response.body, h.kb[i])

\* The classifier lists "b" before "a" and the knowledge base holds "a"
\* before "b"
RelatedAttachmentsWitness ==
  \E r \in Req :
    LET h == handler[r]
    IN  /\ RelatedDone(h)
        /\ h.matchResult.questions = <<<<"b">>, <<"a">>>>
        /\ Len(h.kb) = 2
        /\ h.kb[1].question = <<"a">> /\ h.kb[2].question = <<"b">>
        /\ h.response.body.imageUrl = h.kb[1].imageUrl

AllBlank(text, from, to) == \A k \in from .. to : text[k] = " "

\* text is the exact marker followed by q, with white space around either
IsExactResponseFor(text, q) ==
  \E i \in DOMAIN text :
    /\ text[i] = EXACT
    /\ AllBlank(text, 1, i - 1)
    /\ \E a \in i .. Len(text) :
         /\ AllBlank(text, i + 1, a)
         /\ a + Len(q) <= Len(text)
         /\ SubSeq(text, a + 1, a + Len(q)) = q
         /\ AllBlank(text, a + Len(q) + 1, Len(text))

\* C5: when the classifier answers the exact marker followed by a question
\* of the knowledge base, the handler responds 200 with the question, the
\* answer and the four attachments of the first item with that question,
\* and ai_assisted true.
ExactMatchEndToEnd ==
  \A r \in Req :
    LET h == handler[r]
    IN  \A i \in DOMAIN h.kb :
          (/\ h.pc = "done" /\ h.geminiCalls = 1
           /\ IsExactResponseFor(h.rawResponse, h.kb[i].question)
           /\ \A j \in 1 .. (i - 1) : h.kb[j].question # h.kb[i].question)
          => /\ h.response.status = 200
             /\ h.response.body.answer = h.kb[i].answer
             /\ h.response.body.question = h.kb[i].question
             /\ SameAttachments(h.response.body, h.kb[i])
             /\ h.response.body.ai_assisted
             /\ h.response.body.error = Absent

\* An exact match on a question that two items of the knowledge base share
ExactMatchWitness ==
  \E r \in Req :
    LET h == handler[r]
    IN  /\ h.pc = "done" /\ h.matchResult.type = "exact"
        /\ Len(h.kb) = 2
        /\ h.kb[1].question = h.kb[2].question
        /\ h.kb[1].answer # h.kb[2].answer
        /\ h.response.body.answer = h.kb[1].answer

\* The request got an empty knowledge base from getKnowledgeBase
EmptyKbDone(h) ==
  h.pc = "done" /\ h.fetchRuns + (IF h.cacheHit THEN 1 ELSE 0) = 1
    /\ h.kb = <<>>

\* The classifier gave no match
NoneDone(h) ==
  h.pc = "done" /\ h.geminiCalls = 1 /\ h.matchResult.type = "none"

\* C6 (as stated): an empty knowledge base and a None result both get 200
\* with the one fallback text (the "not found" text of the None result) and
\* no attachment.
NoMatchSameFallback ==
  \A r \in Req :
    LET h == handler[r]
    IN  (EmptyKbDone(h) \/ NoneDone(h))
          => /\ h.response.status = 200
             /\ h.response.body.answer = NoMatchText
             /\ NoAttachment(h.response.body)

\* C6 (amended): both get 200 with no attachment; the empty knowledge base
\* gets its own fixed text, without ai_assisted, and the None result gets
\* the "not found" text with ai_assisted true.
NoMatchResponses ==
  \A r \in Req :
    LET h == handler[r]
    IN  /\ EmptyKbDone(h)
          => /\ h.response.status = 200
             /\ h.response.body.answer = EmptyKbText
             /\ ~h.response.body.ai_assisted
             /\ NoAttachment(h.response.body)
        /\ NoneDone(h)
          => /\ h.response.status = 200
             /\ h.response.body.answer = NoMatchText
             /\ h.response.body.ai_assisted
             /\ NoAttachment(h.response.body)

\* The classifier answered NO_MATCH on a non-empty knowledge base
NoMatchWitness ==
  \E r \in Req :
    LET h == handler[r]
    IN  /\ NoneDone(h) /\ h.rawResponse = <<"NO_MATCH">>
        /\ h.kb # <<>>
        /\ h.response.body.answer = NoMatchText

LogFailureIsolation ==
  \A r \in Req :
    LET h == handler[r]
    IN  /\ (h.pc = "done" /\ h.geminiCalls = 1)
          => /\ h.logState \in {"ok", "failed", "skipped"}
             /\ h.response =
                  [status |-> 200, body |-> Compose(h.matchResult, h.kb).body]
        /\ h.logCalls <= 1
        /\ ~logEnabled => h.logCalls = 0

\* A match answered with 200 although its log write failed
LogFailureIsolationWitness ==
  \E r \in Req :
    LET h == handler[r]
    IN  /\ h.pc = "done" /\ h.logState = "failed"
        /\ h.matchResult.type = "exact"
        /\ h.response.status = 200

\* C9: OPTIONS gets 200 with an empty body, any other method than POST
\* gets 405, a POST without question (no field, empty value, no body) gets
\* 400, and any other POST gets 200 or 500.
BoundaryStatusCodes ==
  \A r \in Req :
    LET h == handler[r]
    IN  h.pc # "idle" =>
          /\ h.method = "OPTIONS"
               => h.pc = "done" /\ h.response = [status |-> 200, body |-> EmptyBody]
          /\ h.method \notin {"OPTIONS", "POST"}
               => h.pc = "done" /\ h.response.status = 405
          /\ (h.method = "POST" /\ h.body # "question")
               => h.pc = "done" /\ h.response.status = 400
          /\ (h.method = "POST" /\ h.body = "question" /\ h.pc = "done")
               => h.response.status \in {200, 500}

\* C10: a failed page query and a failed classifier call end the request
\* with 200 and a degraded answer, never with 500 or an escaping exception.
FailuresNotSurfaced ==
  \A r \in Req :
    LET h == handler[r]
    IN  /\ h.fetchFailed
          => /\ h.pc = "done"
             /\ h.response = [status |-> 200, body |-> EmptyKbBody]
        /\ h.geminiFailed
          => /\ h.pc \in {"awaitLog", "done"}
             /\ h.matchResult = NoneMatch
             /\ h.pc = "done"
                  => h.response = [status |-> 200, body |-> NoMatchBody]

\* The second page query failed while the cache held a snapshot
FailuresNotSurfacedWitness ==
  \E r \in Req :
    LET h == handler[r]
    IN  /\ h.fetchFailed /\ h.notionQueries = 2
        /\ cache.hasPairs
        /\ h.response.status = 200

\* A refresh of r ends in this step
RefreshEnds(r) ==
  handler[r].pc = "awaitNotion" /\ handler'[r].pc # "awaitNotion"

\* The cache holds what the refresh of r that ends in this step fetched
WrittenBy(r) ==
  cache' = [hasPairs |-> TRUE, qaPairs |-> handler'[r].kb,
            lastFetchTime |-> handler[r].getNow]

\* C11: every get() that misses runs its own refresh, the cache changes
\* only when a refresh ends, then it holds the entries and the capture
\* time of that one refresh, and every refresh that ends with entries
\* overwrites what the earlier ones stored.
RacingRefreshes ==
  [][/\ \A r \in Req :
          /\ (handler[r].pc # "awaitNotion" /\ handler'[r].pc = "awaitNotion")
               => handler'[r].fetchRuns = 1 /\ handler'[r].notionQueries = 1
          /\ (RefreshEnds(r) /\ handler'[r].kb # <<>>) => WrittenBy(r)
     /\ cache' # cache
          => \E r \in Req :
               RefreshEnds(r) /\ handler'[r].kb # <<>> /\ WrittenBy(r)]_vars

\* Two refreshes overlapped, the other one stored first and this one last
RacingRefreshesWitness ==
  \E r, q \in Req :
    /\ r # q
    /\ PastGet(handler[r]) /\ PastGet(handler[q])
    /\ handler[r].overtaken
    /\ handler[r].fetchRuns = 1 /\ handler[q].fetchRuns = 1
    /\ handler[r].kb # <<>> /\ handler[q].kb # <<>>
    /\ handler[r].kb # handler[q].kb
    /\ cache.qaPairs = handler[r].kb
    /\ cache.lastFetchTime = handler[r].getNow
    /\ handler[q].getNow # handler[r].getNow

\* Where the answers of the items of question q stand in the text
AnswerPositions(text, kb, q) ==
  UNION {Occurrences(text, kb[x].answer[1]) :
           x \in {y \in DOMAIN kb : kb[y].question = q}}

NoRepeats(questions) ==
  \A i, j \in DOMAIN questions : questions[i] = questions[j] => i = j

\* C12 (as stated): the answer of a Related response lists the items in
\* the order of the classifier's questions.
RelatedOrderOfClassifier ==
  \A r \in Req :
    LET h == handler[r]
        qs == h.matchResult.questions
    IN  (RelatedDone(h) /\ NoRepeats(qs)) =>
          \A i, j \in DOMAIN qs :
            i < j =>
              \A p1 \in AnswerPositions(h.response.body.answer, h.kb, qs[i]) :
                \A p2 \in AnswerPositions(h.response.body.answer, h.kb, qs[j]) :
                  p1 < p2

\* C12 (amended): the answer of a Related response is the header followed
\* by one bulleted heading and answer for every item of the knowledge base
\* whose question the classifier listed, in the order of the knowledge
\* base.
RelatedOrderOfSnapshot ==
  \A r \in Req :
    LET h == handler[r]
        listed == SelectSeq(h.kb,
                    LAMBDA item : Listed(h.matchResult.questions, item.question))
    IN  RelatedDone(h) =>
          h.response.body.answer = Trim(CombinedAnswer(RelatedHeader, listed))

\* The classifier lists "b" before "a", the knowledge base holds "a" before
\* "b", and the answer shows the answer of "a" before that of "b"
RelatedOrderWitness ==
  \E r \in Req :
    LET h == handler[r]
        answer == h.response.body.answer
    IN  /\ RelatedDone(h)
        /\ h.matchResult.questions = <<<<"b">>, <<"a">>>>
        /\ Len(h.kb) = 2
        /\ h.kb[1].question = <<"a">> /\ h.kb[2].question = <<"b">>
        /\ \E p1 \in Occurrences(answer, h.kb[1].answer[1]) :
             \E p2 \in Occurrences(answer, h.kb[2].answer[1]) : p1 < p2

\* The classifier call of the invocation has settled
Classified(h) == h.geminiCalls = 1 /\ h.pc # "awaitGemini"

IsQuestionOf(kb, q) == \E j \in DOMAIN kb : kb[j].question = q

\* C13: a response that starts with the related marker gives Related with
\* exactly the trimmed pieces that are questions of the knowledge base, in
\* their order, or None when there is none; one that starts with the exact
\* marker followed by no question of the knowledge base gives None; any
\* other response and a failure of the call give None; Related is never
\* empty. The response is rawResponse, the text after its trim.
ParserOutcomes ==
  \A r \in Req :
    LET h == handler[r]
        raw == Trim(h.rawResponse)
        rest == SubSeq(raw, 2, Len(raw))
        pieces == Split(Trim(rest), SEP)
        valid == SelectSeq([i \in DOMAIN pieces |-> Trim(pieces[i])],
                           LAMBDA q : IsQuestionOf(h.kb, q))
    IN  Classified(h) =>
          /\ h.geminiFailed => h.matchResult = NoneMatch
          /\ (~h.geminiFailed /\ raw # <<>> /\ raw[1] = RELATED)
               => h.matchResult =
                    IF valid # <<>>
                    THEN [type |-> "related", questions |-> valid]
                    ELSE NoneMatch
          /\ (~h.geminiFailed /\ raw # <<>> /\ raw[1] = EXACT
                /\ ~IsQuestionOf(h.kb, Trim(rest)))
               => h.matchResult = NoneMatch
          /\ (~h.geminiFailed /\ (raw = <<>> \/ raw[1] \notin {EXACT, RELATED}))
               => h.matchResult = NoneMatch
          /\ h.matchResult.type = "related" => h.matchResult.questions # <<>>

\* Of the two pieces "a " and "" the first one validates once trimmed and
\* the second one is dropped
ParserOutcomesWitness ==
  \E r \in Req :
    LET h == handler[r]
    IN  /\ Classified(h)
        /\ h.rawResponse = <<RELATED, "a", " ", SEP>>
        /\ h.matchResult = [type |-> "related", questions |-> <<<<"a">>>>]

\* C14: a refresh leaves out every record whose question is empty once
\* trimmed, so that no entry of the knowledge base a get() returns and no
\* entry of the stored snapshot has an empty question.
SnapshotQuestionsNonEmpty ==
  /\ \A i \in DOMAIN cache.qaPairs : cache.qaPairs[i].question # <<>>
  /\ \A r \in Req :
       \A i \in DOMAIN handler[r].kb : handler[r].kb[i].question # <<>>

\* The refresh of r ends in this step with a failure or with no entries
RefreshEndsEmpty(r) ==
  RefreshEnds(r) /\ (handler'[r].fetchFailed \/ handler'[r].allItems = <<>>)

\* A get() at time t would return the stored snapshot c
ServedFromCache(c, t) == c.hasPairs /\ t - c.lastFetchTime < CACHE_TTL_MS

GetReturned(h) ==
  h.method = "POST" /\ h.body = "question"
    /\ h.pc \in {"awaitGemini", "awaitLog", "done"}

\* C16: in one invocation the knowledge base is got, the classifier is
\* called and logQuery is called at most once each and in this order, the
\* classifier and logQuery are not called for an empty knowledge base, and
\* nothing is called again after a failed fetch or a failed classification.
CallOrdering ==
  \A r \in Req :
    LET h == handler[r]
    IN  /\ h.fetchRuns + (IF h.cacheHit THEN 1 ELSE 0) <= 1
        /\ h.geminiCalls <= 1
        /\ h.logCalls <= 1
        /\ h.geminiCalls = 1
             => GetReturned(h) /\ h.kb # <<>>
                  /\ h.fetchRuns + (IF h.cacheHit THEN 1 ELSE 0) = 1
        /\ h.logState # "none"
             => h.geminiCalls = 1 /\ h.pc \in {"awaitLog", "done"}
        /\ h.logCalls = 1 => h.logState \in {"pending", "ok", "failed"}
        /\ (GetReturned(h) /\ h.kb = <<>>)
             => h.pc = "done" /\ h.geminiCalls = 0 /\ h.logCalls = 0
                  /\ h.logState = "none"
        /\ h.fetchFailed
             => h.pc = "done" /\ h.fetchRuns = 1 /\ h.geminiCalls = 0
        /\ h.geminiFailed
             => h.pc \in {"awaitLog", "done"} /\ h.geminiCalls = 1

\* One invocation made one refresh, one classifier call and one log write
CallOrderingWitness ==
  \E r \in Req :
    LET h == handler[r]
    IN  /\ h.pc = "done" /\ h.response.status = 200
        /\ h.fetchRuns = 1 /\ h.notionQueries = 2
        /\ h.geminiCalls = 1 /\ h.logCalls = 1 /\ h.logState = "ok"

\* C17: every invocation of the handler that has stopped has sent its
\* response (an invocation that is not suspended at an await and has been
\* started has a response status).
AnsweredWhenStopped ==
  \A r \in Req :
    handler[r].pc \notin {"idle", "awaitNotion", "awaitGemini", "awaitLog"}
      => handler[r].response.status # 0

\* C18 (as stated): the stored capture time never decreases.
CaptureTimeMonotone ==
  [][cache'.lastFetchTime >= cache.lastFetchTime]_vars

\* C18 (amended): the stored capture time is the time at which the get()
\* that stored the snapshot was called, it is never in the future, and it
\* decreases only when a refresh stores after a refresh that was started
\* later has stored.
CaptureTimeOfStart ==
  [][/\ cache'.lastFetchTime <= now'
     /\ \A r \in Req :
          /\ (handler[r].pc # "awaitNotion" /\ handler'[r].pc = "awaitNotion")
               => handler'[r].getNow = now
          /\ (RefreshEnds(r) /\ handler'[r].kb # <<>>)
               => /\ cache'.lastFetchTime = handler[r].getNow
                  /\ ~handler[r].overtaken
                       => cache'.lastFetchTime >= cache.lastFetchTime
     /\ cache'.lastFetchTime < cache.lastFetchTime
          => \E r \in Req :
               /\ RefreshEnds(r) /\ handler[r].overtaken
               /\ handler[r].getNow < cache.lastFetchTime
               /\ cache'.lastFetchTime = handler[r].getNow]_vars

\* The stored snapshot is that of a refresh that was started before, and
\* stored after, the refresh of another invocation, whose capture time was
\* later
CaptureTimeWitness ==
  \E r, q \in Req :
    /\ r # q
    /\ PastGet(handler[r]) /\ handler[r].fetchRuns = 1 /\ handler[r].kb # <<>>
    /\ PastGet(handler[q]) /\ handler[q].fetchRuns = 1 /\ handler[q].kb # <<>>
    /\ handler[r].overtaken
    /\ cache.qaPairs = handler[r].kb
    /\ cache.lastFetchTime = handler[r].getNow
    /\ handler[r].getNow < handler[q].getNow

\* C19: the cache is unset (no snapshot, capture time 0) or holds a
\* snapshot with at least one entry, and an invocation served from the
\* cache gets a non-empty knowledge base and never answers that the
\* knowledge base is empty.
CacheUnsetOrNonEmpty ==
  /\ ~cache.hasPairs => cache.qaPairs = <<>> /\ cache.lastFetchTime = 0
  /\ cache.hasPairs => Len(cache.qaPairs) >= 1
  /\ \A r \in Req :
       LET h == handler[r]
       IN  h.cacheHit =>
             /\ h.fetchRuns = 0 /\ h.notionQueries = 0
             /\ Len(h.kb) >= 1
             /\ h.pc # "awaitNotion"
             /\ h.response.body # EmptyKbBody

\* An invocation was served from the cache and has answered
CacheUnsetOrNonEmptyWitness ==
  \E r \in Req :
    LET h == handler[r]
    IN  /\ h.cacheHit /\ h.pc = "done"
        /\ h.kb = cache.qaPairs
        /\ h.response.status = 200
        /\ now - cache.lastFetchTime < CACHE_TTL_MS

\* The invocation was answered at the boundary
Rejected(h) ==
  /\ h.pc = "done"
  /\ \/ h.method = "OPTIONS" /\ h.response.status = 200
     \/ h.response.status \in {400, 405}

NoCalls(h) ==
  /\ h.fetchRuns = 0 /\ h.notionQueries = 0 /\ ~h.cacheHit
  /\ h.geminiCalls = 0
  /\ h.logCalls = 0 /\ h.logState = "none"

\* C20: an invocation answered with 200 to OPTIONS, with 405 or with 400
\* has queried neither the knowledge source nor the classifier, has not
\* called the log, and the step that answers it leaves the cache as it
\* was.
BoundaryNoSideEffects ==
  [][\A r \in Req :
       (handler'[r] # handler[r] /\ Rejected(handler'[r]))
         => /\ cache' = cache
            /\ NoCalls(handler'[r])
            /\ handler[r].pc \in {"idle", "done", "crashed"}]_vars

\* A POST without question is answered 400 while a snapshot is stored
BoundaryNoSideEffectsWitness ==
  \E r \in Req :
    LET h == handler[r]
    IN  /\ h.pc = "done" /\ h.method = "POST" /\ h.body # "question"
        /\ h.response.status = 400
        /\ cache.hasPairs
        /\ NoCalls(h)

====
